---- MODULE Spec2Model ----
(***************************************************************************)
(* A model of the two notebooks of the repository:                         *)
(*   src/neural_style_tutorial.ipynb  neural style transfer                *)
(*   src/unnamed/part_000             the feature-extractor classifier Net *)
(*                                                                         *)
(* Tensors are records [shape, data]: data is the contiguous row-major     *)
(* storage, every element an exact rational <<numerator, denominator>>.    *)
(***************************************************************************)
EXTENDS Integers, Sequences, FiniteSets, TLC

(***************************************************************************)
(* Bounds of the model.                                                    *)
(***************************************************************************)
\* gram_matrix is applied to every tensor with at most MaxNumel elements
MaxNumel == 4
\* beside vgg19.features, every network of at most MaxLayers children is tried
MaxLayers == 3
\* num_steps is at most MaxSteps
MaxSteps == 1
\* optimizer.step evaluates the closure at most MaxEvals times
MaxEvals == 2
\* the test set holds at most MaxImages images
MaxImages == 40
\* the largest number of mini-batches the test loader gives train
MaxBatches == 625

(***************************************************************************)
(* Exact rational arithmetic (the tensors' element type).                  *)
(***************************************************************************)
Abs(n) == IF n < 0 THEN -n ELSE n

RECURSIVE GCD(_, _)
GCD(m, n) == IF n = 0 THEN m ELSE GCD(n, m % n)

\* the rational n/d in lowest terms with a positive denominator
Rat(n, d) ==
    LET s == IF d < 0 THEN -1 ELSE 1
        g == GCD(Abs(n), Abs(d))
    IN  <<(s * n) \div g, (s * d) \div g>>

RInt(n) == <<n, 1>>
RAdd(x, y) == Rat(x[1] * y[2] + y[1] * x[2], x[2] * y[2])
RSub(x, y) == Rat(x[1] * y[2] - y[1] * x[2], x[2] * y[2])
RMul(x, y) == Rat(x[1] * y[1], x[2] * y[2])
RDiv(x, y) == Rat(x[1] * y[2], x[2] * y[1])
RLeq(x, y) == x[1] * y[2] <= y[1] * x[2]
RMax(x, y) == IF RLeq(x, y) THEN y ELSE x
RMin(x, y) == IF RLeq(x, y) THEN x ELSE y

RECURSIVE RSum(_)
RSum(s) == IF s = <<>> THEN RInt(0) ELSE RAdd(Head(s), RSum(Tail(s)))

RECURSIVE Prod(_)
Prod(s) == IF s = <<>> THEN 1 ELSE Head(s) * Prod(Tail(s))

(***************************************************************************)
(* Tensors.                                                                *)
(***************************************************************************)
\* (data \o <<>> makes TLC compute the elements once, when the tensor is made)
Tensor(shape, data) == [shape |-> shape, data |-> data \o <<>>]

\* the value of a tensor variable that holds no tensor yet
NoTensor == Tensor(<<>>, <<>>)

\* input.view(rows, cols): the same storage read with another shape
View(t, shape) == Tensor(shape, t.data)

\* element (r, c), counted from 0, of a 2-d tensor
At2(m, r, c) == m.data[r * m.shape[2] + c + 1]

\* element (i0, i1, i2, i3), counted from 0, of a 4-d tensor
At4(t, i0, i1, i2, i3) ==
    t.data[((i0 * t.shape[2] + i1) * t.shape[3] + i2) * t.shape[4] + i3 + 1]

\* features.t()
Transpose(m) ==
    LET r == m.shape[1]
        c == m.shape[2]
    IN  Tensor(<<c, r>>,
               [k \in 1..(r * c) |-> At2(m, (k - 1) % r, (k - 1) \div r)])

\* torch.mm(x, y)
Mm(x, y) ==
    LET r == x.shape[1]
        n == x.shape[2]
        c == y.shape[2]
    IN  Tensor(<<r, c>>,
               [k \in 1..(r * c) |->
                   RSum([j \in 1..n |->
                            RMul(At2(x, (k - 1) \div c, j - 1),
                                 At2(y, j - 1, (k - 1) % c))])])

\* G.div(n)
Div(t, n) == Tensor(t.shape, [k \in 1..Len(t.data) |-> RDiv(t.data[k], RInt(n))])

\* a mutant of gram_matrix: normalises by the size of one feature map only
gram_matrix_per_map(input) ==
    LET a == input.shape[1]
        b == input.shape[2]
        c == input.shape[3]
        d == input.shape[4]
        features == View(input, <<a * b, c * d>>)
        G == Mm(features, Transpose(features))
    IN  Div(G, c * d)

gram_matrix(input) ==
    LET a == input.shape[1]
        b == input.shape[2]
        c == input.shape[3]
        d == input.shape[4]
        features == View(input, <<a * b, c * d>>)
        G == Mm(features, Transpose(features))
    IN  Div(G, a * b * c * d)

\* F.mse_loss(input, target): the mean of the squared differences
mse_loss(input, target) ==
    RDiv(RSum([k \in 1..Len(input.data) |->
                  RMul(RSub(input.data[k], target.data[k]),
                       RSub(input.data[k], target.data[k]))]),
         RInt(Len(input.data)))

\* input_img.data.clamp_(lo, hi), a mutant: the lower limit is not applied
ClampUpperOnly(t, lo, hi) ==
    Tensor(t.shape, [k \in 1..Len(t.data) |-> RMin(t.data[k], RInt(hi))])

\* input_img.data.clamp_(lo, hi)
Clamp(t, lo, hi) ==
    Tensor(t.shape,
           [k \in 1..Len(t.data) |-> RMin(RMax(t.data[k], RInt(lo)), RInt(hi))])

InRange(t, lo, hi) ==
    \A k \in 1..Len(t.data) : RLeq(RInt(lo), t.data[k]) /\ RLeq(t.data[k], RInt(hi))

(***************************************************************************)
(* Modules.  A module is a record: cls is its class; weight, bias, scale   *)
(* are its parameters (<<>> where the class has none); id is the index of  *)
(* a loss module's mutable state (target, loss) in the heap, 0 otherwise.  *)
(***************************************************************************)
Module(cls, weight, bias, scale, inplace, id) ==
    [cls |-> cls, weight |-> weight, bias |-> bias, scale |-> scale,
     inplace |-> inplace, id |-> id]

\* the channel (counted from 0) of the k-th element of a 4-d tensor
ChannelOf(t, k) == ((k - 1) \div (t.shape[3] * t.shape[4])) % t.shape[2]

\* Normalization.forward: (img - mean) / std, mean and std viewed as [C x 1 x 1]
NormalizationForward(m, img) ==
    Tensor(img.shape,
           [k \in 1..Len(img.data) |->
               RDiv(RSub(img.data[k], m.bias[ChannelOf(img, k) + 1]),
                    m.scale[ChannelOf(img, k) + 1])])

\* nn.Conv2d with a 1x1 kernel: out[n,co,h,w] = bias[co] + sum_ci weight[co][ci] * in[n,ci,h,w]
Conv2dForward(m, x) ==
    LET C == x.shape[2]
        hw == x.shape[3] * x.shape[4]
    IN  Tensor(x.shape,
               [k \in 1..Len(x.data) |->
                   LET n == (k - 1) \div (C * hw)
                       co == ChannelOf(x, k)
                       at == (k - 1) % hw
                   IN  RAdd(RInt(m.bias[co + 1]),
                            RSum([ci \in 1..C |->
                                     RMul(RInt(m.weight[co + 1][ci]),
                                          x.data[n * C * hw + (ci - 1) * hw + at + 1])]))])

\* nn.ReLU
ReLUForward(m, x) ==
    Tensor(x.shape, [k \in 1..Len(x.data) |-> RMax(x.data[k], RInt(0))])

\* nn.MaxPool2d(kernel_size=(1, 3), stride=1, padding=(0, 1)): the maximum of
\* each element and its neighbours in the row
MaxPool2dForward(m, x) ==
    LET W == x.shape[4]
    IN  Tensor(x.shape,
               [k \in 1..Len(x.data) |->
                   LET w == (k - 1) % W
                       left == IF w > 0 THEN RMax(x.data[k - 1], x.data[k]) ELSE x.data[k]
                   IN  IF w < W - 1 THEN RMax(left, x.data[k + 1]) ELSE left])

\* nn.BatchNorm2d in evaluation mode: a fixed affine map per channel
BatchNorm2dForward(m, x) ==
    Tensor(x.shape,
           [k \in 1..Len(x.data) |->
               RAdd(RMul(x.data[k], RInt(m.scale[ChannelOf(x, k) + 1])),
                    RInt(m.bias[ChannelOf(x, k) + 1]))])

\* the mutable state of a loss module: target is set by __init__, loss by
\* forward (<<>> while the attribute does not exist)
NoLoss == <<>>
LossState(cls, target) == [cls |-> cls, target |-> target, loss |-> NoLoss]

\* ContentLoss.forward, a mutant: returns the target it is compared with
ContentLossForwardTarget(m, input, heap) ==
    [out |-> heap[m.id].target,
     mods |-> [heap EXCEPT ![m.id].loss = mse_loss(input, heap[m.id].target)]]

\* ContentLoss.forward
ContentLossForward(m, input, heap) ==
    [out |-> input,
     mods |-> [heap EXCEPT ![m.id].loss = mse_loss(input, heap[m.id].target)]]

\* StyleLoss.forward
StyleLossForward(m, input, heap) ==
    LET G == gram_matrix(input)
    IN  [out |-> input,
         mods |-> [heap EXCEPT ![m.id].loss = mse_loss(G, heap[m.id].target)]]

IsLoss(m) == m.cls \in {"ContentLoss", "StyleLoss"}

\* module(x): the output and the heap after the call
ModuleForward(m, x, heap) ==
    CASE m.cls = "Normalization" -> [out |-> NormalizationForward(m, x), mods |-> heap]
      [] m.cls = "Conv2d"        -> [out |-> Conv2dForward(m, x), mods |-> heap]
      [] m.cls = "ReLU"          -> [out |-> ReLUForward(m, x), mods |-> heap]
      [] m.cls = "MaxPool2d"     -> [out |-> MaxPool2dForward(m, x), mods |-> heap]
      [] m.cls = "BatchNorm2d"   -> [out |-> BatchNorm2dForward(m, x), mods |-> heap]
      [] m.cls = "ContentLoss"   -> ContentLossForward(m, x, heap)
      [] m.cls = "StyleLoss"     -> StyleLossForward(m, x, heap)

\* nn.Sequential.forward from child k on: acts collects the input of every child
RECURSIVE ForwardFrom(_, _, _, _, _)
ForwardFrom(seq, k, x, heap, acts) ==
    IF k > Len(seq)
    THEN [out |-> x, mods |-> heap, acts |-> acts]
    ELSE LET r == ModuleForward(seq[k].m, x, heap)
         IN  ForwardFrom(seq, k + 1, r.out, r.mods, Append(acts, x))

\* model(x) for a Sequential given as its list of [name, m] children
Forward(seq, x, heap) == ForwardFrom(seq, 1, x, heap, <<>>)

\* nn.Module.add_module(name, module): a new name is appended, an existing
\* name keeps its place and gets the new module
AddModule(seq, name, m) ==
    IF \E p \in 1..Len(seq) : seq[p].name = name
    THEN [p \in 1..Len(seq) |->
             IF seq[p].name = name THEN [name |-> name, m |-> m] ELSE seq[p]]
    ELSE Append(seq, [name |-> name, m |-> m])

(***************************************************************************)
(* State.                                                                  *)
(***************************************************************************)
VARIABLES
    g_input,        \* gram_matrix: the argument of the call
    g_out,          \* gram_matrix: the value returned (NoTensor before the call)
    entry,          \* the function called: run_style_transfer or get_style_model_and_losses
    cnn,            \* argument: the children of the network, in order
    content_layers, \* argument: the layer names to put a content loss after
    style_layers,   \* argument: the layer names to put a style loss after
    content_img,    \* argument
    style_img,      \* argument
    input_img,      \* argument: the image being optimised, updated in place
    num_steps,      \* argument
    style_weight,   \* argument
    content_weight, \* argument
    model,          \* get_style_model_and_losses: the Sequential being built, a list of [name, m]
    untrimmed,      \* model as it was before line 498 cut it (<<>> before)
    mods,           \* the heap: the state (class, target, loss) of every loss module created
    content_losses, \* get_style_model_and_losses: list of loss modules (heap indexes)
    style_losses,   \* get_style_model_and_losses: list of loss modules (heap indexes)
    i,              \* get_style_model_and_losses: the counter i
    pos,            \* number of children the for loop of line 460 has taken from cnn
    names,          \* the name given to each child scanned so far
    ret,            \* <<model, style_losses, content_losses>> once returned, <<>> before
    pc,             \* position in the program
    run,            \* run_style_transfer: run[0]
    evals,          \* closure evaluations made by the current optimizer.step
    acts,           \* the input of every child of model in the closure's last model(input_img)
    loss,           \* closure: the value of loss at loss.backward() (NoLoss before)
    closure_ret,    \* closure: the value returned (NoLoss before)
    dataset_len,    \* len(testloader.dataset)
    taken,          \* number of images the loop over testloader has taken
    x,              \* Net.forward: the shape of x (<<>> outside forward)
    outputs_eval,   \* the shape of outputs_eval (<<>> before the first batch)
    net_pc,         \* position in the feature-extraction loop and in Net.forward
    epoch,          \* train: the argument epoch
    train_i,        \* train: the index i that enumerate(testloader, 0) gives next
    running_loss,   \* train: running_loss
    total,          \* train: total
    printed,        \* the indexes i at which this call of train printed statistics
    train_pc        \* position in the training loop

gramVars == <<g_input, g_out>>
netVars == <<dataset_len, taken, x, outputs_eval, net_pc>>
trainVars == <<epoch, train_i, running_loss, total, printed, train_pc>>
argVars == <<entry, cnn, content_layers, style_layers, content_img, style_img,
             num_steps, style_weight, content_weight>>
buildVars == <<model, untrimmed, content_losses, style_losses, i, pos, names, ret>>
optVars == <<input_img, run, evals, acts, loss, closure_ret>>
vars == <<gramVars, netVars, trainVars, argVars, buildVars, optVars, mods, pc>>

(***************************************************************************)
(* Inputs of the style transfer.  Images have shape [B x C x H x W] =      *)
(* [1 x 2 x 1 x 2].                                                        *)
(***************************************************************************)
Half == <<1, 2>>
Image(data) == Tensor(<<1, 2, 1, 2>>, data)

ContentImgs == {Image(<<Half, RInt(1), RInt(0), Half>>),
                Image(<<RInt(1), RInt(0), RInt(1), RInt(1)>>)}
StyleImgs == {Image(<<RInt(1), RInt(0), Half, RInt(1)>>)}
\* torch.randn(content_img.data.size()): white noise, not limited to [0, 1]
NoiseImgs == {Image(<<<<-1, 2>>, <<3, 2>>, Half, RInt(2)>>)}
\* the images an L-BFGS update may leave in input_img
UpdateImgs == {Image(<<<<3, 2>>, <<-1, 2>>, Half, RInt(0)>>),
               Image(<<Half, RInt(1), RInt(1), RInt(0)>>)}
\* (style_weight, content_weight)
WeightChoices == {<<3, 2>>}

\* cnn_normalization_mean, cnn_normalization_std, one entry per channel
cnn_normalization_mean == <<Half, RInt(0)>>
cnn_normalization_std == <<Half, RInt(1)>>

\* the kinds of children a network is made of; every layer keeps the shape
\* of the image: a convolution has a 1x1 kernel on the 2 channels
Conv2dLayer == Module("Conv2d", <<<<1, 0>>, <<1, -1>>>>, <<0, 1>>, <<>>, FALSE, 0)
ReLULayer == Module("ReLU", <<>>, <<>>, <<>>, TRUE, 0)
MaxPool2dLayer == Module("MaxPool2d", <<>>, <<>>, <<>>, FALSE, 0)
BatchNorm2dLayer == Module("BatchNorm2d", <<>>, <<-1, 1>>, <<2, 1>>, FALSE, 0)
AvgPool2dLayer == Module("AvgPool2d", <<>>, <<>>, <<>>, FALSE, 0)
Palette == {Conv2dLayer, ReLULayer, MaxPool2dLayer, BatchNorm2dLayer, AvgPool2dLayer}

VggPalette == {Conv2dLayer, ReLULayer, MaxPool2dLayer}

\* models.vgg19(pretrained=True).features: 16 convolutions, each followed by
\* a ReLU, in blocks of 2, 2, 4, 4 and 4 that each end with a MaxPool2d
VggBlock(convs) ==
    [k \in 1..(2 * convs + 1) |->
        IF k = 2 * convs + 1 THEN MaxPool2dLayer
        ELSE IF k % 2 = 1 THEN Conv2dLayer ELSE ReLULayer]
Vgg19Features == VggBlock(2) \o VggBlock(2) \o VggBlock(4) \o VggBlock(4) \o VggBlock(4)

\* shorter networks of the same pattern: five convolutions in blocks of 2 and
\* 3, and a network whose fifth convolution is its last child
VggLikeCnns == {VggBlock(2) \o VggBlock(3), VggBlock(4) \o <<Conv2dLayer>>}

Cnns == {Vgg19Features} \cup VggLikeCnns
            \cup UNION {[1..n -> Palette] : n \in 1..MaxLayers}
VggCnns == {Vgg19Features} \cup UNION {[1..n -> VggPalette] : n \in 1..MaxLayers}

content_layers_default == {"conv_4"}
style_layers_default == {"conv_1", "conv_2", "conv_3", "conv_4", "conv_5"}

\* (content_layers, style_layers) of a direct call of get_style_model_and_losses
LayerChoices ==
    {<<content_layers_default, style_layers_default>>,
     <<{"conv_1"}, {"conv_1"}>>,
     <<{"conv_2"}, {"conv_1", "conv_3"}>>,
     <<{"conv_1", "conv_2"}, {"conv_2", "conv_3"}>>,
     <<{}, {"conv_2"}>>}

(***************************************************************************)
(* get_style_model_and_losses                                              *)
(***************************************************************************)
Recognized == {"Conv2d", "ReLU", "MaxPool2d", "BatchNorm2d"}

\* '<prefix>_{}'.format(n)
Format(prefix, n) == prefix \o "_" \o ToString(n)

\* lines 461-473, a mutant: the counter is read before it is incremented
LayerNameStale(layer, n) ==
    CASE layer.cls = "Conv2d"      -> Format("conv", n)
      [] layer.cls = "ReLU"        -> Format("relu", n)
      [] layer.cls = "MaxPool2d"   -> Format("pool", n)
      [] layer.cls = "BatchNorm2d" -> Format("bn", n)

\* lines 461-473: the name of a recognized child, n being the value of i
\* when the child is reached
LayerName(layer, n) ==
    CASE layer.cls = "Conv2d"      -> Format("conv", n + 1)
      [] layer.cls = "ReLU"        -> Format("relu", n)
      [] layer.cls = "MaxPool2d"   -> Format("pool", n)
      [] layer.cls = "BatchNorm2d" -> Format("bn", n)

Normalization(mean, std) == Module("Normalization", <<>>, mean, std, FALSE, 0)
LossModule(cls, id) == Module(cls, <<>>, <<>>, <<>>, FALSE, id)

\* lines 479-484, a mutant: the loss goes in front of the layer it measures
AddContentLossBefore(seq, heap, n) ==
    LET target == Forward(seq, content_img, heap)
        id == Len(heap) + 1
        m == [name |-> Format("content_loss", n), m |-> LossModule("ContentLoss", id)]
    IN  [model |-> SubSeq(seq, 1, Len(seq) - 1) \o <<m, seq[Len(seq)]>>,
         mods |-> Append(target.mods, LossState("ContentLoss", target.out)),
         id |-> id]

\* lines 479-484: target = model(content_img).detach(); a ContentLoss on it is
\* added to the model
AddContentLoss(seq, heap, n) ==
    LET target == Forward(seq, content_img, heap)
        id == Len(heap) + 1
    IN  [model |-> AddModule(seq, Format("content_loss", n), LossModule("ContentLoss", id)),
         mods |-> Append(target.mods, LossState("ContentLoss", target.out)),
         id |-> id]

\* lines 486-491, a mutant: the target is the feature map, not its Gram matrix
AddStyleLossRaw(seq, heap, n) ==
    LET target_feature == Forward(seq, style_img, heap)
        id == Len(heap) + 1
    IN  [model |-> AddModule(seq, Format("style_loss", n), LossModule("StyleLoss", id)),
         mods |-> Append(target_feature.mods,
                         LossState("StyleLoss", target_feature.out)),
         id |-> id]

\* lines 486-491: target_feature = model(style_img).detach(); a StyleLoss on it
\* is added to the model
AddStyleLoss(seq, heap, n) ==
    LET target_feature == Forward(seq, style_img, heap)
        id == Len(heap) + 1
    IN  [model |-> AddModule(seq, Format("style_loss", n), LossModule("StyleLoss", id)),
         mods |-> Append(target_feature.mods,
                         LossState("StyleLoss", gram_matrix(target_feature.out))),
         id |-> id]

\* lines 494-496, a mutant: the scan starts one child too early
TrimIndexShort(seq) ==
    LET found == {k \in 0..(Len(seq) - 2) : IsLoss(seq[k + 1].m)}
    IN  IF found = {} THEN 0 ELSE CHOOSE k \in found : \A j \in found : j <= k

\* lines 494-496, a mutant: the loop breaks at once and nothing is cut
TrimIndexKeepAll(seq) == Len(seq) - 1

\* lines 494-496: i after the loop, the index (from 0) of the last loss module,
\* or 0 when the loop ends without a break
TrimIndex(seq) ==
    LET found == {k \in 0..(Len(seq) - 1) : IsLoss(seq[k + 1].m)}
    IN  IF found = {} THEN 0 ELSE CHOOSE k \in found : \A j \in found : j <= k

\* line 475, a mutant: the unrecognized child is skipped and the scan goes on
AfterUnrecognizedSkip == "scan"

\* line 475: raise RuntimeError('Unrecognized layer: ...') ends the call
AfterUnrecognized == "raised"

\* lines 460-491: one pass of the for loop
ScanLayer ==
    /\ pc = "scan"
    /\ pos < Len(cnn)
    /\ pos' = pos + 1
    /\ LET layer == cnn[pos + 1]
       IN  IF layer.cls \notin Recognized
           THEN \* line 475
                /\ pc' = AfterUnrecognized
                /\ UNCHANGED <<model, mods, content_losses, style_losses, i, names>>
           ELSE LET name == LayerName(layer, i)
                    n == IF layer.cls = "Conv2d" THEN i + 1 ELSE i
                    child == IF layer.cls = "ReLU"
                             THEN [layer EXCEPT !.inplace = FALSE]
                             ELSE layer
                    m1 == AddModule(model, name, child)
                    c == IF name \in content_layers
                         THEN AddContentLoss(m1, mods, n)
                         ELSE [model |-> m1, mods |-> mods, id |-> 0]
                    st == IF name \in style_layers
                          THEN AddStyleLoss(c.model, c.mods, n)
                          ELSE [model |-> c.model, mods |-> c.mods, id |-> 0]
                IN  /\ i' = n
                    /\ names' = Append(names, name)
                    /\ model' = st.model
                    /\ mods' = st.mods
                    /\ content_losses' = IF c.id # 0 THEN Append(content_losses, c.id)
                                         ELSE content_losses
                    /\ style_losses' = IF st.id # 0 THEN Append(style_losses, st.id)
                                       ELSE style_losses
                    /\ pc' = "scan"
    /\ UNCHANGED <<trainVars, gramVars, netVars, argVars, optVars, untrimmed, ret>>

\* lines 493-500, and the assignment of line 585 in run_style_transfer
TrimAndReturn ==
    /\ pc = "scan"
    /\ pos = Len(cnn)
    /\ i' = TrimIndex(model)
    /\ untrimmed' = model
    /\ model' = SubSeq(model, 1, TrimIndex(model) + 1)
    /\ ret' = <<model', style_losses, content_losses>>
    /\ pc' = IF entry = "run_style_transfer" THEN "optimizer" ELSE "returned"
    /\ UNCHANGED <<trainVars, gramVars, netVars, argVars, optVars, mods, content_losses, style_losses,
                   pos, names>>

(***************************************************************************)
(* run_style_transfer                                                      *)
(***************************************************************************)
\* the first run for which the closure prints the scores
PrintEvery == 50

\* lines 599-610, a mutant: each score is multiplied by the other's weight
WeightedLossSwapped(heap) ==
    RAdd(RMul(RSum([k \in 1..Len(ret[2]) |-> heap[ret[2][k]].loss]),
              RInt(content_weight)),
         RMul(RSum([k \in 1..Len(ret[3]) |-> heap[ret[3][k]].loss]),
              RInt(style_weight)))

\* lines 599-610: style_score and content_score are summed over the two lists,
\* multiplied by their weights and added
WeightedLoss(heap) ==
    LET style_score == RSum([k \in 1..Len(ret[2]) |-> heap[ret[2][k]].loss])
        content_score == RSum([k \in 1..Len(ret[3]) |-> heap[ret[3][k]].loss])
    IN  RAdd(RMul(style_score, RInt(style_weight)),
             RMul(content_score, RInt(content_weight)))

\* line 587: optimizer = get_input_optimizer(input_img); line 590: run = [0]
GetInputOptimizer ==
    /\ pc = "optimizer"
    /\ run' = 0
    /\ pc' = "loop"
    /\ UNCHANGED <<trainVars, gramVars, netVars, argVars, buildVars, mods, input_img, evals, acts, loss,
                   closure_ret>>

\* lines 591 and 622: the loop goes on, optimizer.step(closure) is called
StepBegin ==
    /\ pc = "loop"
    /\ run <= num_steps
    /\ evals' = 0
    /\ pc' = "closure"
    /\ UNCHANGED <<trainVars, gramVars, netVars, argVars, buildVars, mods, input_img, run, acts, loss,
                   closure_ret>>

\* lines 593-620: one evaluation of closure by the optimizer
Closure ==
    /\ pc = "closure"
    /\ LET clamped == Clamp(input_img, 0, 1)
           fw == Forward(ret[1], clamped, mods)
           no_style == ret[2] = <<>>
           no_content == ret[3] = <<>>
       IN  /\ input_img' = clamped
           /\ acts' = fw.acts
           /\ mods' = fw.mods
           /\ IF no_style /\ no_content
              THEN \* loss is the int 0, which has no backward()
                   /\ pc' = "raised"
                   /\ UNCHANGED <<run, loss, closure_ret>>
              ELSE /\ loss' = WeightedLoss(fw.mods)
                   /\ run' = run + 1
                   /\ IF run' % PrintEvery = 0 /\ (no_style \/ no_content)
                      THEN \* a score that is still the int 0 has no item()
                           /\ pc' = "raised"
                           /\ UNCHANGED closure_ret
                      ELSE /\ closure_ret' = WeightedLoss(fw.mods)
                           /\ pc' = "evaluated"
    /\ evals' = evals + 1
    /\ UNCHANGED <<trainVars, gramVars, netVars, argVars, buildVars>>

\* optimizer.step: L-BFGS moves input_img along its search direction
OptimizerUpdate ==
    /\ pc = "evaluated"
    /\ input_img' \in UpdateImgs
    /\ pc' = "updated"
    /\ UNCHANGED <<trainVars, gramVars, netVars, argVars, buildVars, mods, run, evals, acts, loss,
                   closure_ret>>

\* optimizer.step: L-BFGS evaluates the closure again at the new point
Reevaluate ==
    /\ pc = "updated"
    /\ evals < MaxEvals
    /\ pc' = "closure"
    /\ UNCHANGED <<trainVars, gramVars, netVars, argVars, buildVars, optVars, mods>>

\* optimizer.step returns: after an evaluation (a stopping test holds) or
\* after the update of its last iteration
StepReturn ==
    /\ pc \in {"evaluated", "updated"}
    /\ pc' = "loop"
    /\ UNCHANGED <<trainVars, gramVars, netVars, argVars, buildVars, optVars, mods>>

\* lines 591, 624-627: the loop ends, the last correction, return input_img
LastCorrection ==
    /\ pc = "loop"
    /\ ~(run <= num_steps)
    /\ input_img' = Clamp(input_img, 0, 1)
    /\ pc' = "done"
    /\ UNCHANGED <<trainVars, gramVars, netVars, argVars, buildVars, mods, run, evals, acts, loss,
                   closure_ret>>

GramIdle == g_input = NoTensor /\ g_out = NoTensor

TrainIdle ==
    /\ epoch = 0
    /\ train_i = 0
    /\ running_loss = 0
    /\ total = 0
    /\ printed = {}
    /\ train_pc = "idle"

NetIdle ==
    /\ dataset_len = 0
    /\ taken = 0
    /\ x = <<>>
    /\ outputs_eval = <<>>
    /\ net_pc = "idle"

\* the state at line 459 of get_style_model_and_losses
BuildStart ==
    /\ model = <<[name |-> "0",
                  m |-> Normalization(cnn_normalization_mean, cnn_normalization_std)]>>
    /\ untrimmed = <<>>
    /\ mods = <<>>
    /\ content_losses = <<>>
    /\ style_losses = <<>>
    /\ i = 0
    /\ pos = 0
    /\ names = <<>>
    /\ ret = <<>>
    /\ pc = "scan"
    /\ run = 0
    /\ evals = 0
    /\ acts = <<>>
    /\ loss = NoLoss
    /\ closure_ret = NoLoss

\* vgg19.features and every network of at most MaxLayers children: given to
\* get_style_model_and_losses with several layer lists, and to
\* run_style_transfer (which passes no layer lists: the defaults apply).
Init ==
    /\ GramIdle
    /\ NetIdle
    /\ TrainIdle
    /\ cnn \in Cnns
    /\ content_img \in ContentImgs
    /\ style_img \in StyleImgs
    /\ input_img = content_img
    /\ num_steps = 0
    /\ \/ /\ entry = "get_style_model_and_losses"
          /\ \E lc \in LayerChoices : content_layers = lc[1] /\ style_layers = lc[2]
          /\ style_weight = 0
          /\ content_weight = 0
       \/ /\ entry = "run_style_transfer"
          /\ content_layers = content_layers_default
          /\ style_layers = style_layers_default
          /\ \E w \in WeightChoices : style_weight = w[1] /\ content_weight = w[2]
    /\ BuildStart

\* run_style_transfer on vgg19.features and on every network of at most
\* MaxLayers children of its classes, from the content image or from white noise
RunInit ==
    /\ GramIdle
    /\ NetIdle
    /\ TrainIdle
    /\ entry = "run_style_transfer"
    /\ cnn \in VggCnns
    /\ content_layers = content_layers_default
    /\ style_layers = style_layers_default
    /\ content_img \in ContentImgs
    /\ style_img \in StyleImgs
    /\ input_img \in {content_img} \cup NoiseImgs
    /\ num_steps \in 0..MaxSteps
    /\ \E w \in WeightChoices : style_weight = w[1] /\ content_weight = w[2]
    /\ BuildStart

Next ==
    \/ ScanLayer
    \/ TrimAndReturn
    \/ GetInputOptimizer
    \/ StepBegin
    \/ Closure
    \/ OptimizerUpdate
    \/ Reevaluate
    \/ StepReturn
    \/ LastCorrection

Spec == Init /\ [][Next]_vars

SpecRun == RunInit /\ [][Next]_vars

(***************************************************************************)
(* gram_matrix as a program: one call on every small tensor.               *)
(***************************************************************************)
GramVals == {-1, 0, 2}

GramShapes ==
    {s \in (1..MaxNumel) \X (1..MaxNumel) \X (1..MaxNumel) \X (1..MaxNumel) :
        Prod(s) <= MaxNumel}

GramInputs ==
    UNION {{Tensor(s, [k \in 1..Prod(s) |-> RInt(f[k])]) :
               f \in [1..Prod(s) -> GramVals]} : s \in GramShapes}

StyleIdle ==
    /\ entry = "gram_matrix"
    /\ cnn = <<>>
    /\ content_layers = {}
    /\ style_layers = {}
    /\ content_img = NoTensor
    /\ style_img = NoTensor
    /\ input_img = NoTensor
    /\ num_steps = 0
    /\ style_weight = 0
    /\ content_weight = 0
    /\ model = <<>>
    /\ untrimmed = <<>>
    /\ mods = <<>>
    /\ content_losses = <<>>
    /\ style_losses = <<>>
    /\ i = 0
    /\ pos = 0
    /\ names = <<>>
    /\ ret = <<>>
    /\ pc = "idle"
    /\ run = 0
    /\ evals = 0
    /\ acts = <<>>
    /\ loss = NoLoss
    /\ closure_ret = NoLoss

GramInit ==
    /\ g_input \in GramInputs
    /\ g_out = NoTensor
    /\ StyleIdle
    /\ NetIdle
    /\ TrainIdle

GramCall ==
    /\ g_out = NoTensor
    /\ g_out' = gram_matrix(g_input)
    /\ UNCHANGED <<trainVars, g_input, netVars, argVars, buildVars, optVars, mods, pc>>

GramNext == GramCall

SpecGram == GramInit /\ [][GramNext]_vars

(***************************************************************************)
(* The classifier Net and the feature-extraction loop (part_000).  Only    *)
(* the shapes of the tensors are kept: a shape is the tuple x.size().      *)
(* An operation that PyTorch rejects for the shape gives <<>>.             *)
(***************************************************************************)
\* DataLoader(testset, batch_size=16, ...)
batch_size == 16

\* one MNIST image after ToTensor(): [C x H x W]
ImageShape == <<1, 28, 28>>

\* nn.Conv2d(in, out, k) and its forward on a [B x C x H x W] input
Conv2d(in, out, k) == [in |-> in, out |-> out, k |-> k]
Conv2dShape(c, s) ==
    IF Len(s) = 4 /\ s[2] = c.in /\ s[3] >= c.k /\ s[4] >= c.k
    THEN <<s[1], c.out, s[3] - c.k + 1, s[4] - c.k + 1>>
    ELSE <<>>

\* nn.BatchNorm2d(n), nn.BatchNorm1d(n): the shape is kept
BatchNormShape(n, s) == IF Len(s) >= 2 /\ s[2] = n THEN s ELSE <<>>

\* nn.MaxPool2d(k, stride)
MaxPool2dShape(k, stride, s) ==
    IF Len(s) = 4 /\ s[3] >= k /\ s[4] >= k
    THEN <<s[1], s[2], (s[3] - k) \div stride + 1, (s[4] - k) \div stride + 1>>
    ELSE <<>>

\* nn.Linear(in, out)
Linear(in, out) == [in |-> in, out |-> out]
LinearShape(l, s) ==
    IF Len(s) >= 1 /\ s[Len(s)] = l.in
    THEN [k \in 1..Len(s) |-> IF k = Len(s) THEN l.out ELSE s[k]]
    ELSE <<>>

\* Net.__init__
conv1 == Conv2d(1, 64, 3)
b1 == 64
conv2 == Conv2d(64, 128, 3)
b2 == 128
conv3 == Conv2d(128, 128, 3)
b3 == 128
fcn1 == Linear(128 * 1 * 1, 52)
bfn1 == 52
fcn2 == Linear(52, 10)
\* self.pool = nn.MaxPool2d(2, 2)
pool(s) == MaxPool2dShape(2, 2, s)

\* Net.num_flat_features, a mutant: the batch dimension is multiplied in
num_flat_features_all(s) == Prod(s)

\* Net.num_flat_features: the product of all dimensions except the batch dimension
num_flat_features(s) == Prod(Tail(s))

\* x.view(-1, n)
ViewFlat(s, n) == IF n > 0 /\ Prod(s) % n = 0 THEN <<Prod(s) \div n, n>> ELSE <<>>

\* self.pool(F.relu(bn(conv(x)))): F.relu keeps the shape
ConvBlock(conv, bn, s) ==
    LET c == Conv2dShape(conv, s)
        n == IF c = <<>> THEN <<>> ELSE BatchNormShape(bn, c)
    IN  IF n = <<>> THEN <<>> ELSE pool(n)

\* the position after a statement of forward that gave shape s
AfterStatement(s, next) == IF s = <<>> THEN "raised" ELSE next

\* line 177: the loop takes the next batch of at most batch_size images;
\* line 179 calls model(images_eval)
TakeBatch ==
    /\ net_pc = "loop"
    /\ taken < dataset_len
    /\ LET n == IF dataset_len - taken < batch_size THEN dataset_len - taken
                ELSE batch_size
       IN  /\ taken' = taken + n
           /\ x' = <<n>> \o ImageShape
    /\ net_pc' = "layer1"
    /\ UNCHANGED <<trainVars, gramVars, argVars, buildVars, optVars, mods, pc, dataset_len,
                   outputs_eval>>

\* line 79
Layer1 ==
    /\ net_pc = "layer1"
    /\ x' = ConvBlock(conv1, b1, x)
    /\ net_pc' = AfterStatement(x', "layer2")
    /\ UNCHANGED <<trainVars, gramVars, argVars, buildVars, optVars, mods, pc, dataset_len,
                   taken, outputs_eval>>

\* line 83
Layer2 ==
    /\ net_pc = "layer2"
    /\ x' = ConvBlock(conv2, b2, x)
    /\ net_pc' = AfterStatement(x', "layer3")
    /\ UNCHANGED <<trainVars, gramVars, argVars, buildVars, optVars, mods, pc, dataset_len,
                   taken, outputs_eval>>

\* line 86
Layer3 ==
    /\ net_pc = "layer3"
    /\ x' = ConvBlock(conv3, b3, x)
    /\ net_pc' = AfterStatement(x', "flatten")
    /\ UNCHANGED <<trainVars, gramVars, argVars, buildVars, optVars, mods, pc, dataset_len,
                   taken, outputs_eval>>

\* line 89
Flatten ==
    /\ net_pc = "flatten"
    /\ x' = ViewFlat(x, num_flat_features(x))
    /\ net_pc' = AfterStatement(x', "fc1")
    /\ UNCHANGED <<trainVars, gramVars, argVars, buildVars, optVars, mods, pc, dataset_len,
                   taken, outputs_eval>>

\* lines 92-93: F.relu and F.dropout keep the shape
FCLayer1 ==
    /\ net_pc = "fc1"
    /\ LET l == LinearShape(fcn1, x)
       IN  x' = IF l = <<>> THEN <<>> ELSE BatchNormShape(bfn1, l)
    /\ net_pc' = AfterStatement(x', "fc2")
    /\ UNCHANGED <<trainVars, gramVars, argVars, buildVars, optVars, mods, pc, dataset_len,
                   taken, outputs_eval>>

\* lines 96-97, and the assignment of line 179
FCLayer2 ==
    /\ net_pc = "fc2"
    /\ LET l == LinearShape(fcn2, x)
       IN  /\ outputs_eval' = IF l = <<>> THEN outputs_eval ELSE l
           /\ net_pc' = AfterStatement(l, "loop")
    /\ x' = <<>>
    /\ UNCHANGED <<trainVars, gramVars, argVars, buildVars, optVars, mods, pc, dataset_len, taken>>

\* line 177: the test loader is exhausted
LoopEnd ==
    /\ net_pc = "loop"
    /\ taken = dataset_len
    /\ net_pc' = "done"
    /\ UNCHANGED <<trainVars, gramVars, argVars, buildVars, optVars, mods, pc, dataset_len,
                   taken, x, outputs_eval>>

NetInit ==
    /\ GramIdle
    /\ StyleIdle
    /\ TrainIdle
    /\ dataset_len \in 1..MaxImages
    /\ taken = 0
    /\ x = <<>>
    /\ outputs_eval = <<>>
    /\ net_pc = "loop"

NetNext ==
    \/ TakeBatch
    \/ Layer1
    \/ Layer2
    \/ Layer3
    \/ Flatten
    \/ FCLayer1
    \/ FCLayer2
    \/ LoopEnd

SpecNet == NetInit /\ [][NetNext]_vars

(***************************************************************************)
(* The training loop (part_000, train and the loop over the epochs).  The  *)
(* loop runs over testloader.  Of a mini-batch only what the statistics'   *)
(* schedule reads is kept: its size and the value of loss.item(); the      *)
(* weights, the predictions and correct are left out.                      *)
(***************************************************************************)
log_interval == 500

\* for epoch in range(5)
Epochs == 5

\* the values of loss.item(), in units of the smallest
LossItems == {1, 2}

\* len(testloader.dataset) for a loader of one batch, of two batches the
\* second one short, and of MaxBatches full batches
TrainLens == {1, batch_size + 1, batch_size * MaxBatches}

\* lines 229-259: one pass of the for loop, on the next mini-batch
TrainBatch ==
    /\ train_pc = "loop"
    /\ total < dataset_len
    /\ LET n == IF dataset_len - total < batch_size THEN dataset_len - total
                ELSE batch_size
       IN  total' = total + n
    /\ \E item \in LossItems :
          IF train_i % log_interval = 0
          THEN /\ printed' = printed \cup {train_i}
               /\ running_loss' = 0
          ELSE /\ printed' = printed
               /\ running_loss' = running_loss + item
    /\ train_i' = train_i + 1
    /\ UNCHANGED <<gramVars, argVars, buildVars, optVars, mods, pc, dataset_len,
                   taken, x, outputs_eval, net_pc, epoch, train_pc>>

\* the loader is exhausted and train returns; lines 271-272 call it for the
\* next epoch (lines 223-227 start it), line 273 follows the last one
TrainReturn ==
    /\ train_pc = "loop"
    /\ total = dataset_len
    /\ IF epoch + 1 < Epochs
       THEN /\ epoch' = epoch + 1
            /\ running_loss' = 0
            /\ total' = 0
            /\ train_i' = 0
            /\ printed' = {}
            /\ train_pc' = "loop"
       ELSE /\ train_pc' = "finished"
            /\ UNCHANGED <<epoch, running_loss, total, train_i, printed>>
    /\ UNCHANGED <<gramVars, argVars, buildVars, optVars, mods, pc, dataset_len,
                   taken, x, outputs_eval, net_pc>>

\* the state at line 229 of train(0)
TrainInit ==
    /\ GramIdle
    /\ StyleIdle
    /\ dataset_len \in TrainLens
    /\ taken = 0
    /\ x = <<>>
    /\ outputs_eval = <<>>
    /\ net_pc = "idle"
    /\ epoch = 0
    /\ train_i = 0
    /\ running_loss = 0
    /\ total = 0
    /\ printed = {}
    /\ train_pc = "loop"

TrainNext ==
    \/ TrainBatch
    \/ TrainReturn

SpecTrain == TrainInit /\ [][TrainNext]_vars

(***************************************************************************)
(* C8 as stated: in the feature-extraction loop, for every batch the       *)
(* output of model(images_eval) has second dimension 128.                  *)
(***************************************************************************)
C8_OutputWidth128 ==
    outputs_eval # <<>> => outputs_eval[2] = 128

(***************************************************************************)
(* Helpers of the claims about the style transfer.                         *)
(***************************************************************************)
\* the children of seq that are no loss modules, in order
RECURSIVE Strip(_)
Strip(seq) ==
    IF seq = <<>> THEN <<>>
    ELSE IF IsLoss(Head(seq).m) THEN Strip(Tail(seq))
         ELSE <<Head(seq)>> \o Strip(Tail(seq))

\* the number of children among the first p of seq that are no loss modules
Rank(seq, p) == Cardinality({q \in 1..p : ~IsLoss(seq[q].m)})

\* the number of Conv2d among the first p children of the network
NumConv(p) == Cardinality({q \in 1..p : cnn[q].cls = "Conv2d"})

\* the positions of the loss modules of a class in seq
LossAt(seq, cls) == {p \in 1..Len(seq) : seq[p].m.cls = cls}

(***************************************************************************)
(* C1: ContentLoss and StyleLoss are transparent: forward returns exactly  *)
(* the input it was given and writes only its own loss, so in the          *)
(* closure's model(input_img) every child of the built model receives the  *)
(* activation it would receive with the loss modules absent.               *)
(***************************************************************************)
C1_Transparent ==
    /\ \A p \in 1..Len(model) : IsLoss(model[p].m) =>
          \A img \in {content_img, style_img, input_img} :
             LET r == ModuleForward(model[p].m, img, mods)
             IN  /\ r.out = img
                 /\ \A id \in 1..Len(mods) :
                       /\ r.mods[id].target = mods[id].target
                       /\ id # model[p].m.id => r.mods[id].loss = mods[id].loss
    /\ acts # <<>> =>
          LET plain == Forward(Strip(ret[1]), acts[1], <<>>).acts
          IN  \A p \in 1..Len(ret[1]) :
                 /\ ~IsLoss(ret[1][p].m) => acts[p] = plain[Rank(ret[1], p)]
                 /\ IsLoss(ret[1][p].m) /\ p < Len(ret[1]) => acts[p + 1] = acts[p]

\* the closure has run a model where layers follow a content loss whose
\* input is not its target and a style loss
C1_Witness ==
    /\ acts # <<>>
    /\ \E p \in LossAt(ret[1], "ContentLoss") :
          /\ acts[p] # mods[ret[1][p].m.id].target
          /\ \E q \in (p + 1)..Len(ret[1]) : ~IsLoss(ret[1][q].m)
    /\ \E p \in LossAt(ret[1], "StyleLoss") :
          \E q \in (p + 1)..Len(ret[1]) : ~IsLoss(ret[1][q].m)

C3_EndsWithLoss ==
    ret # <<>> =>
        /\ IsLoss(ret[1][Len(ret[1])].m)
        /\ ret[1] = SubSeq(untrimmed, 1, Len(ret[1]))

(***************************************************************************)
(* C3 amended: when the untrimmed model holds a loss module, the returned  *)
(* model ends with its last loss module and is the untrimmed model up to   *)
(* it, in order; when it holds none, the returned model is the             *)
(* Normalization module alone.                                             *)
(***************************************************************************)
C3_TrimmedAfterLastLoss ==
    ret # <<>> =>
        /\ Len(ret[1]) <= Len(untrimmed)
        /\ ret[1] = SubSeq(untrimmed, 1, Len(ret[1]))
        /\ \A p \in (Len(ret[1]) + 1)..Len(untrimmed) : ~IsLoss(untrimmed[p].m)
        /\ IF \E p \in 1..Len(untrimmed) : IsLoss(untrimmed[p].m)
           THEN IsLoss(ret[1][Len(ret[1])].m)
           ELSE Len(ret[1]) = 1 /\ ret[1][1].m.cls = "Normalization"

\* a returned model that lost layers behind its last loss module
C3_Witness ==
    /\ ret # <<>>
    /\ Len(ret[1]) < Len(untrimmed)
    /\ IsLoss(ret[1][Len(ret[1])].m)
    /\ Len(ret[1]) > 2

(***************************************************************************)
(* C4: at every closure evaluation the image given to model(input_img) has *)
(* all its values in [0, 1], and so has the image run_style_transfer       *)
(* returns, whatever update the optimizer applied last.                    *)
(***************************************************************************)
C4_ImageInRange ==
    /\ acts # <<>> => InRange(acts[1], 0, 1)
    /\ pc = "evaluated" => input_img = acts[1]
    /\ pc = "done" => InRange(input_img, 0, 1)

OutOfRangeUpdates == {u \in UpdateImgs : ~InRange(u, 0, 1)}

\* run_style_transfer has returned, the optimizer's last act having been an
\* update that left the range; an earlier closure was given a corrected image
C4_Witness ==
    /\ pc = "done"
    /\ acts # <<>>
    /\ \E u \in OutOfRangeUpdates : input_img = Clamp(u, 0, 1) /\ acts[1] # input_img
    /\ \E t \in NoiseImgs \cup OutOfRangeUpdates : acts[1] = Clamp(t, 0, 1)

(***************************************************************************)
(* C5: at every closure evaluation the value back-propagated and the value *)
(* returned are style_weight * (sum of the loss of the style_losses) +     *)
(* content_weight * (sum of the loss of the content_losses).               *)
(***************************************************************************)
StyleSum == RSum([k \in 1..Len(ret[2]) |-> mods[ret[2][k]].loss])
ContentSum == RSum([k \in 1..Len(ret[3]) |-> mods[ret[3][k]].loss])

C5_WeightedSum ==
    pc = "evaluated" =>
        /\ closure_ret = RAdd(RMul(RInt(style_weight), StyleSum),
                              RMul(RInt(content_weight), ContentSum))
        /\ loss = closure_ret

\* a closure evaluation with several style losses and a content loss, the
\* two sums positive and different
C5_Witness ==
    /\ pc = "evaluated"
    /\ Len(ret[2]) > 1
    /\ Len(ret[3]) > 0
    /\ StyleSum # RInt(0)
    /\ ContentSum # RInt(0)
    /\ StyleSum # ContentSum

(***************************************************************************)
(* C7: the target of every loss module is a fixed value: for a ContentLoss *)
(* the output for the content image, for a StyleLoss the Gram matrix of    *)
(* the output for the style image, of the model up to and including the    *)
(* layer the module is named for; it is the same in every later state.     *)
(***************************************************************************)
C7_TargetFixed ==
    /\ \A id \in 1..Len(mods) : \E p \in 1..Len(model) : model[p].m.id = id
    /\ \A p \in 1..Len(model) : IsLoss(model[p].m) =>
          LET q == CHOOSE k \in 1..(p - 1) :
                      /\ ~IsLoss(model[k].m)
                      /\ \A j \in (k + 1)..(p - 1) : IsLoss(model[j].m)
              prefix == Strip(SubSeq(model, 1, q))
              target == mods[model[p].m.id].target
          IN  IF model[p].m.cls = "ContentLoss"
              THEN /\ model[q].name \in content_layers
                   /\ target = Forward(prefix, content_img, <<>>).out
              ELSE /\ model[q].name \in style_layers
                   /\ target = gram_matrix(Forward(prefix, style_img, <<>>).out)

\* the optimizer has moved the image and evaluated the closure again, on a
\* model with a content loss and several style losses
C7_Witness ==
    /\ pc = "evaluated"
    /\ evals > 1
    /\ Len(content_losses) > 0
    /\ Len(style_losses) > 1
    /\ \A id \in 1..Len(mods) : mods[id].loss # NoLoss

(***************************************************************************)
(* C9: the k-th Conv2d scanned is named conv_k; a ReLU, MaxPool2d or        *)
(* BatchNorm2d is named relu_n, pool_n or bn_n, n being the number of      *)
(* Conv2d scanned before it (0 before the first); the counter i changes    *)
(* only on a Conv2d.                                                       *)
(***************************************************************************)
C9_LayerNames ==
    /\ \A p \in 1..Len(names) :
          names[p] =
             CASE cnn[p].cls = "Conv2d"      -> "conv_" \o ToString(NumConv(p - 1) + 1)
               [] cnn[p].cls = "ReLU"        -> "relu_" \o ToString(NumConv(p - 1))
               [] cnn[p].cls = "MaxPool2d"   -> "pool_" \o ToString(NumConv(p - 1))
               [] cnn[p].cls = "BatchNorm2d" -> "bn_" \o ToString(NumConv(p - 1))
    /\ pc = "scan" => i = NumConv(pos) /\ Len(names) = pos

\* a scan that named a layer in front of the first convolution, the
\* convolution and a layer behind it
C9_Witness ==
    /\ Len(names) = 3
    /\ names[1] \in {"relu_0", "pool_0", "bn_0"}
    /\ names[2] = "conv_1"
    /\ names[3] \in {"relu_1", "pool_1", "bn_1"}

(***************************************************************************)
(* C10: when the network has a child that is no Conv2d, ReLU, MaxPool2d or *)
(* BatchNorm2d, get_style_model_and_losses raises at the first such child  *)
(* and returns no model: no later child is scanned, and run_style_transfer *)
(* never reaches the optimisation loop.                                    *)
(***************************************************************************)
Offending == {q \in 1..Len(cnn) : cnn[q].cls \notin Recognized}
FirstOffending == CHOOSE q \in Offending : \A r \in Offending : q <= r

C10_UnrecognizedRaises ==
    /\ Offending # {} =>
          /\ pos <= FirstOffending
          /\ pc = IF pos = FirstOffending THEN "raised" ELSE "scan"
          /\ Len(names) = IF pos = FirstOffending THEN pos - 1 ELSE pos
          /\ ret = <<>>
          /\ run = 0 /\ evals = 0 /\ acts = <<>> /\ loss = NoLoss /\ closure_ret = NoLoss
    /\ pc = "raised" /\ ret = <<>> => Offending # {} /\ pos = FirstOffending

\* run_style_transfer has raised at an unrecognized child between other
\* children
C10_Witness ==
    /\ entry = "run_style_transfer"
    /\ pc = "raised"
    /\ ret = <<>>
    /\ 1 < pos
    /\ pos < Len(cnn)

(***************************************************************************)
(* C11: with the default layer lists and a network of Conv2d, ReLU and     *)
(* MaxPool2d children holding at least 5 convolutions,                     *)
(* get_style_model_and_losses returns exactly 1 content loss and 5 style   *)
(* losses, each list in order of increasing depth in the model (the        *)
(* content loss behind conv_4, style loss k behind conv_k); the returned   *)
(* model ends at style_loss_5, and no layer of the network behind conv_5   *)
(* is left in it.                                                          *)
(***************************************************************************)
\* the position in seq of the loss module with heap index id
LossPos(seq, id) == CHOOSE p \in 1..Len(seq) : IsLoss(seq[p].m) /\ seq[p].m.id = id

\* the position in seq of the child called name (0 when there is none)
NamePos(seq, name) ==
    IF \E p \in 1..Len(seq) : seq[p].name = name
    THEN CHOOSE p \in 1..Len(seq) : seq[p].name = name
    ELSE 0

VggPattern ==
    /\ \A q \in 1..Len(cnn) : cnn[q] \in VggPalette
    /\ NumConv(Len(cnn)) >= 5

C11_DefaultLosses ==
    (/\ ret # <<>>
     /\ content_layers = {"conv_4"}
     /\ style_layers = {"conv_1", "conv_2", "conv_3", "conv_4", "conv_5"}
     /\ VggPattern) =>
        /\ Len(ret[3]) = 1
        /\ Len(ret[2]) = 5
        /\ Cardinality(LossAt(ret[1], "ContentLoss")) = 1
        /\ Cardinality(LossAt(ret[1], "StyleLoss")) = 5
        /\ ret[1][LossPos(ret[1], ret[3][1])].name = "content_loss_4"
        /\ LossPos(ret[1], ret[3][1]) = NamePos(ret[1], "conv_4") + 1
        /\ \A k \in 1..5 :
              /\ ret[1][LossPos(ret[1], ret[2][k])].name = Format("style_loss", k)
              /\ NamePos(ret[1], Format("conv", k)) > 0
              /\ LossPos(ret[1], ret[2][k]) > NamePos(ret[1], Format("conv", k))
              /\ k < 5 => LossPos(ret[1], ret[2][k]) < LossPos(ret[1], ret[2][k + 1])
        /\ ret[1][Len(ret[1])].name = "style_loss_5"
        /\ NamePos(ret[1], "conv_5") = Len(ret[1]) - 1
        /\ \A p \in 1..Len(ret[1]) : ret[1][p].name # "relu_5"

\* get_style_model_and_losses has returned for vgg19.features with the
\* default lists, and layers behind conv_5 were cut
C11_Witness ==
    /\ ret # <<>>
    /\ entry = "get_style_model_and_losses"
    /\ cnn = Vgg19Features
    /\ content_layers = {"conv_4"}
    /\ style_layers = {"conv_1", "conv_2", "conv_3", "conv_4", "conv_5"}
    /\ Len(ret[2]) = 5
    /\ Len(untrimmed) > Len(ret[1]) + 20

(***************************************************************************)
(* C12: for a batch of 28x28 single-channel images the three blocks of     *)
(* Net.forward (3x3 unpadded convolution, then 2x2 max-pooling) give the   *)
(* spatial sizes 28 -> 26 -> 13, 13 -> 11 -> 5 and 5 -> 3 -> 1; before the *)
(* first fully connected layer num_flat_features(x) is 128 * 1 * 1 = 128,  *)
(* the input width of fcn1, and x.view gives [B x 128]; num_flat_features  *)
(* is the product of all dimensions but the batch dimension.  No statement *)
(* of forward rejects its input.                                           *)
(***************************************************************************)
\* the spatial size [H x W] of a [B x C x H x W] shape
Spatial(s) == <<s[3], s[4]>>

\* the number of images in the batch the loop took last
LastBatch ==
    IF taken % batch_size = 0 THEN batch_size ELSE taken % batch_size

C12_ShapeArithmetic ==
    /\ net_pc # "raised"
    /\ net_pc = "layer1" =>
          /\ x = <<LastBatch, 1, 28, 28>>
          /\ Conv2dShape(conv1, x) = <<LastBatch, 64, 26, 26>>
          /\ Spatial(pool(Conv2dShape(conv1, x))) = <<13, 13>>
    /\ net_pc = "layer2" =>
          /\ x = <<LastBatch, 64, 13, 13>>
          /\ Conv2dShape(conv2, x) = <<LastBatch, 128, 11, 11>>
          /\ Spatial(pool(Conv2dShape(conv2, x))) = <<5, 5>>
    /\ net_pc = "layer3" =>
          /\ x = <<LastBatch, 128, 5, 5>>
          /\ Conv2dShape(conv3, x) = <<LastBatch, 128, 3, 3>>
          /\ Spatial(pool(Conv2dShape(conv3, x))) = <<1, 1>>
    /\ net_pc = "flatten" =>
          /\ x = <<LastBatch, 128, 1, 1>>
          /\ num_flat_features(x) = 128
          /\ num_flat_features(x) = fcn1.in
    /\ net_pc = "fc1" => x = <<LastBatch, 128>>
    /\ x # <<>> => num_flat_features(x) * x[1] = Prod(x)

\* a batch of several images, fewer than batch_size, has passed the three
\* blocks and the flatten, and stands before fcn1
C12_Witness ==
    /\ net_pc = "fc1"
    /\ x = <<LastBatch, 128>>
    /\ 1 < LastBatch
    /\ LastBatch < batch_size
    /\ taken > batch_size

(***************************************************************************)
(* C13 as stated: train(epoch) prints statistics every 200 mini-batches:   *)
(* within one epoch a statistics line is emitted for batch index i exactly *)
(* when i is a multiple of 200, and running_loss is 0 after each such      *)
(* line.                                                                   *)
(***************************************************************************)
C13_PrintEvery200 ==
    /\ \A k \in 0..(train_i - 1) : k \in printed <=> k % 200 = 0
    /\ (train_i > 0 /\ (train_i - 1) \in printed) => running_loss = 0

(***************************************************************************)
(* C6: gram_matrix(input), input of shape (a, b, c, d), is the             *)
(* (a*b) x (a*b) matrix with G[i][j] = (sum over k of F[i][k] * F[j][k])   *)
(* / (a*b*c*d), F being the input reshaped to (a*b) x (c*d); and G is      *)
(* symmetric.                                                              *)
(***************************************************************************)
\* F[i][k] read from the 4-d input: row r is feature map (r \div b, r % b),
\* column k is position (k \div d, k % d) of that map
Feature(t, r, k) ==
    At4(t, r \div t.shape[2], r % t.shape[2], k \div t.shape[4], k % t.shape[4])

====
